---- MODULE Spec2Model ----
(***************************************************************************)
(* Model of app.py: a Streamlit chat UI that routes each prompt either to  *)
(* a news pipeline (RSS feed -> headless browser -> model summary) or to a *)
(* chat responder, renders one "save to Notion" button per article, and    *)
(* lets the sidebar form append schedules.                                 *)
(*                                                                         *)
(* Text.  A Python str is a sequence of fragments: "" is <<>>, + and       *)
(* f-string interpolation are \o.  The classifier's reply is a sequence of *)
(* single characters, because the code inspects it character-wise (strip,  *)
(* upper, substring).  The Korean literals of app.py are written here in   *)
(* ASCII; the original literal is quoted in the comment of each one.       *)
(*                                                                         *)
(* Option.  Python's None is <<>> and a value x that may be None is <<x>>. *)
(*                                                                         *)
(* One script run (Streamlit re-executes app.py top to bottom on every     *)
(* interaction) is one action, except the news pipeline, which is split at *)
(* the browser calls so that the open browser sessions can be observed.    *)
(* A run that ends in an uncaught exception leaves session_state as it was *)
(* at the raise and sets escaped.                                          *)
(*                                                                         *)
(* Scope.  The model is one Streamlit session.  The 60 s page reload of    *)
(* app.py:232 opens a new session, whose state is Init again.  A feed that *)
(* cannot be fetched is a feed without entries (feedparser.parse reports   *)
(* the error in the result instead of raising).  time.time() is a clock    *)
(* that has advanced whenever the next news message is built, a crawl in   *)
(* between taking far longer than its resolution.  browser.close() in the  *)
(* finally clause does not raise: Playwright swallows the error of closing *)
(* a browser that is already gone.                                         *)
(***************************************************************************)
EXTENDS Integers, Sequences, FiniteSets, TLC

(* ------------------------------ bounds --------------------------------- *)
\* prompts and schedules submitted in one session
MaxInputs == 2
\* failures of the model endpoint and of the browser injected in one session
\* (the notes API may fail at every call)
MaxFaults == 1
\* longest feed the RSS endpoint answers with
MaxFeedLen == 4

(* ------------------------- program constants --------------------------- *)
\* feed.entries[:3]
ArticleLimit == 3

\* "NEWS" in intent
NEWS == <<"N", "E", "W", "S">>

\* "관련 기사를 찾을 수 없습니다."
NoResultsMsg == <<"no related articles found.">>

\* f"요약 실패: "
SummaryFailedPrefix == <<"summary failed: ">>

\* f"응답 생성 중 오류가 발생했습니다: "
ChatFailedPrefix == <<"error while generating the reply: ">>

None == <<>>
Some(x) == <<x>>

(* ------------------------------ inputs --------------------------------- *)
Prompts == {<<"AI news">>}

\* what client.chat.completions.create gives the classifier: an exception, or
\* a reply (character sequence)
Replies ==
    { <<"N", "E", "W", "S">>,
      <<" ", "n", "e", "w", "s", "\n">>,
      <<"C", "H", "A", "T">>,
      <<"N", "E", "W">> }

ClassifierOutcomes ==
    {[raised |-> TRUE, reply |-> <<>>]}
        \cup {[raised |-> FALSE, reply |-> r] : r \in Replies}

\* what the model call of general_chat_response gives
ChatOutcomes ==
    { [raised |-> FALSE, text |-> <<"hello">>],
      [raised |-> TRUE, text |-> <<"error">>] }

\* what the try block of crawl_and_summarize meets: the call that raised
\* ("none": no call raised) and the exception text or the model's summary
CrawlOutcomes ==
    { [fail |-> "goto", text |-> <<"error">>],
      [fail |-> "inner_text", text |-> <<"error">>],
      [fail |-> "model", text |-> <<"error">>],
      [fail |-> "none", text |-> <<"three line summary">>] }

\* an outcome that spends the fault budget
IsFault(o) == o.fail /= "none"

\* the i-th entry of the parsed feed
Entry(i) == [title |-> <<"title", ToString(i)>>, link |-> <<"https://news/", ToString(i)>>]

\* feedparser.parse(rss_url).entries for a feed of n entries
Feed(n) == [i \in 1..n |-> Entry(i)]

\* the radio's default choice, "매일"
ScheduleTypes == {"daily", "weekday"}
Keywords == {<<>>, <<"AI">>}
Hours == {9}
Minutes == {0}

(* ------------------------------ state ---------------------------------- *)
VARIABLES
    messages,        \* st.session_state.messages
    schedules,       \* st.session_state.schedules
    collected_news,  \* st.session_state.collected_news
    last_check_time, \* st.session_state.last_check_time
    pc,              \* position of the running script: "idle" between runs
    prompt,          \* the prompt of the running chat-input handler
    entries,         \* feed.entries of the running search
    idx,             \* 1-based position of the loop over feed.entries[:3]
    results,         \* results of the running search
    summary,         \* what the try block of crawl_and_summarize produced
    crawlRaised,     \* crawl_and_summarize is leaving with an exception
    browsers,        \* entries whose browser is launched and not torn down
    clock,           \* time.time()
    faults,          \* failures injected so far
    nInputs,         \* prompts and schedules submitted so far
    event,           \* the interaction the last run handled
    ran,             \* pipeline the last run entered: "none", "news", "chat"
    searchStatus,    \* "none", "running", "returned", "raised"
    searchRet,       \* Option: what search_and_process_news returned
    outcomes,        \* per entry of the running search, the call that failed
    modelCalls,      \* model calls made inside the running search
    launches,        \* chromium.launch calls made inside the running search
    notionCalls,     \* arguments of the save_to_notion calls of the last run
    notionRet,       \* their return values
    notionApiCalls,  \* notion.pages.create calls of the last run
    click,           \* Option: <<message index, article index>> clicked
    apiFailed,       \* the notes API failed in the last run
    escaped          \* the last run ended in an uncaught exception

store == <<messages, schedules, collected_news, last_check_time>>

locals == <<prompt, entries, idx, results, summary, crawlRaised>>

searchGhost == <<searchStatus, searchRet, outcomes, modelCalls, launches>>

notionGhost == <<notionCalls, notionRet, notionApiCalls, click, apiFailed>>

vars == <<messages, schedules, collected_news, last_check_time, pc, prompt,
          entries, idx, results, summary, crawlRaised, browsers, clock, faults,
          nInputs, event, ran, searchStatus, searchRet, outcomes,
          modelCalls, launches, notionCalls, notionRet, notionApiCalls, click, apiFailed,
          escaped>>

Init ==
    /\ messages = <<>>
    /\ schedules = <<>>
    /\ collected_news = <<>>
    /\ last_check_time = <<>>
    /\ pc = "idle"
    /\ prompt = <<>>
    /\ entries = <<>>
    /\ idx = 0
    /\ results = <<>>
    /\ summary = <<>>
    /\ crawlRaised = FALSE
    /\ browsers = {}
    /\ clock = 1
    /\ faults = 0
    /\ nInputs = 0
    /\ event = "none"
    /\ ran = "none"
    /\ searchStatus = "none"
    /\ searchRet = None
    /\ outcomes = <<>>
    /\ modelCalls = 0
    /\ launches = 0
    /\ notionCalls = <<>>
    /\ notionRet = <<>>
    /\ notionApiCalls = 0
    /\ click = None
    /\ apiFailed = FALSE
    /\ escaped = FALSE

(* --------------------------- pure functions ---------------------------- *)
IsSpace(c) == c \in {" ", "\n", "\t"}

UpperChar(c) ==
    CASE c = "n" -> "N"
      [] c = "e" -> "E"
      [] c = "w" -> "W"
      [] c = "s" -> "S"
      [] c = "c" -> "C"
      [] c = "h" -> "H"
      [] c = "a" -> "A"
      [] c = "t" -> "T"
      [] OTHER -> c

\* str.upper()
StrUpper(s) == [i \in 1..Len(s) |-> UpperChar(s[i])]

\* str.strip()
RECURSIVE StrStrip(_)
StrStrip(s) ==
    IF s = <<>> THEN s
    ELSE IF IsSpace(Head(s)) THEN StrStrip(Tail(s))
    ELSE IF IsSpace(s[Len(s)]) THEN StrStrip(SubSeq(s, 1, Len(s) - 1))
    ELSE s

\* sub in s
StrContains(s, sub) ==
    \E i \in 1..(Len(s) - Len(sub) + 1) : SubSeq(s, i, i + Len(sub) - 1) = sub

\* a bug: the reply is matched without .upper()
CheckNewsIntentNoUpper(co) ==
    IF co.raised THEN FALSE ELSE StrContains(StrStrip(co.reply), NEWS)

\* check_news_intent: False on any exception of the model call, else
\* "NEWS" in response.choices[0].message.content.strip().upper()
CheckNewsIntent(co) ==
    IF co.raised THEN FALSE ELSE StrContains(StrUpper(StrStrip(co.reply)), NEWS)

\* general_chat_response: the reply, or the error text in its place
GeneralChatResponse(g) ==
    IF g.raised THEN ChatFailedPrefix \o g.text ELSE g.text

\* a bug: the except clause lets the exception go on
CrawlReturnReraise(o) ==
    IF o.fail = "none"
    THEN [raised |-> FALSE, value |-> o.text]
    ELSE [raised |-> TRUE, value |-> <<>>]

\* the try/except of crawl_and_summarize: the model's summary, or
\* f"요약 실패: {str(e)}" for an exception of goto, inner_text or the model call
CrawlReturn(o) ==
    IF o.fail = "none"
    THEN [raised |-> FALSE, value |-> o.text]
    ELSE [raised |-> FALSE, value |-> SummaryFailedPrefix \o o.text]

\* whether the try block got as far as the model call
ReachedModelCall(o) == o.fail \in {"none", "model"}

\* a bug: the browser is closed after the return value is computed only
BrowserCloseOnSuccess(open, i, failed) == IF failed THEN open ELSE open \ {i}

\* finally: await browser.close()
BrowserClose(open, i, failed) == open \ {i}

\* leaving "async with async_playwright()" stops the driver, and the browsers
\* it launched go down with it
PlaywrightExit(open, i) == open \ {i}

\* a bug: the empty feed answers with an empty list
EmptyFeedReturnList == [results |-> Some(<<>>), text |-> NoResultsMsg]

\* return None, "관련 기사를 찾을 수 없습니다."
EmptyFeedReturn == [results |-> None, text |-> NoResultsMsg]

\* the lines response_text gets for results[i..]
RECURSIVE ArticleLines(_, _)
ArticleLines(res, i) ==
    IF i > Len(res) THEN <<>>
    ELSE <<"article ", ToString(i), ": ">> \o res[i].title \o <<"\n">>
            \o res[i].summary \o <<"\n", "link: ">> \o res[i].link \o <<"\n\n">>
            \o ArticleLines(res, i + 1)

\* response_text of search_and_process_news
ResponseText(keyword, res) ==
    <<"latest news about '">> \o keyword \o <<"'\n\n">> \o ArticleLines(res, 1)

\* bool(news_results)
Truthy(opt) == opt /= None /\ opt[1] /= <<>>

\* the assistant message of the news branch
NewsMessage(ret, now) ==
    IF Truthy(ret.results)
    THEN [role |-> "assistant", content |-> ret.text, timestamp |-> now,
          news_results |-> ret.results[1]]
    ELSE [role |-> "assistant", content |-> ret.text, timestamp |-> now]

\* a bug: the key leaves the message's timestamp out
ButtonKeyNoTimestamp(i, message) == <<"notion", i, 0>>

\* key=f"notion_{i}_{message.get('timestamp', i)}", i counted from 0
ButtonKey(i, message) ==
    <<"notion", i, IF "timestamp" \in DOMAIN message THEN message.timestamp ELSE i>>

HasNews(message) == message.role = "assistant" /\ "news_results" \in DOMAIN message

SaveArgs(article) ==
    [title |-> article.title, summary |-> article.summary, link |-> article.link]

\* the save_to_notion calls one message's buttons make when the button with
\* key clicked is the one st.button reports pressed
MessageButtons(message, clicked) ==
    IF HasNews(message)
    THEN LET n == Len(message.news_results)
             all == [i \in 1..n |-> [key |-> ButtonKey(i - 1, message),
                                     args |-> SaveArgs(message.news_results[i])]]
             hit == SelectSeq(all, LAMBDA b : b.key = clicked)
         IN [j \in 1..Len(hit) |-> hit[j].args]
    ELSE <<>>

\* for message in st.session_state.messages: ...
RECURSIVE RenderLoop(_, _, _)
RenderLoop(msgs, k, clicked) ==
    IF k > Len(msgs) THEN <<>>
    ELSE MessageButtons(msgs[k], clicked) \o RenderLoop(msgs, k + 1, clicked)

\* a bug: a failed save is tried once more
SaveToNotionRetry(args, apiOk) ==
    IF apiOk THEN [ret |-> TRUE, attempts |-> 1] ELSE [ret |-> FALSE, attempts |-> 2]

\* save_to_notion: True after notion.pages.create, False on its exception
SaveToNotion(args, apiOk) ==
    IF apiOk THEN [ret |-> TRUE, attempts |-> 1] ELSE [ret |-> FALSE, attempts |-> 1]

RECURSIVE Attempts(_, _, _)
Attempts(calls, k, apiOk) ==
    IF k > Len(calls) THEN 0
    ELSE SaveToNotion(calls[k], apiOk).attempts + Attempts(calls, k + 1, apiOk)

\* a bug: every schedule gets id 0
NewScheduleIdZero(t, k, h, m, existing) ==
    [id |-> 0, type |-> t, keyword |-> k, hour |-> h, minute |-> m, active |-> TRUE]

\* new_schedule
NewSchedule(t, k, h, m, existing) ==
    [id |-> Len(existing), type |-> t, keyword |-> k, hour |-> h, minute |-> m,
     active |-> TRUE]

Min(a, b) == IF a < b THEN a ELSE b

(* ------------------------------ actions -------------------------------- *)
\* a script run starts: the locals and the record of the previous run are gone
FreshSearch ==
    /\ entries' = <<>>
    /\ idx' = 0
    /\ results' = <<>>
    /\ summary' = <<>>
    /\ crawlRaised' = FALSE
    /\ searchStatus' = "none"
    /\ searchRet' = None
    /\ outcomes' = <<>>
    /\ modelCalls' = 0
    /\ launches' = 0

FreshNotion ==
    /\ notionCalls' = <<>>
    /\ notionRet' = <<>>
    /\ notionApiCalls' = 0
    /\ click' = None
    /\ apiFailed' = FALSE

UserMessage(p) == [role |-> "user", content |-> p]

\* chat input, classifier says chat (or fails): general_chat_response
ChatInputChat(p, co, g) ==
    /\ pc = "idle"
    /\ nInputs < MaxInputs
    /\ ~CheckNewsIntent(co)
    /\ faults + (IF co.raised THEN 1 ELSE 0) + (IF g.raised THEN 1 ELSE 0) <= MaxFaults
    /\ faults' = faults + (IF co.raised THEN 1 ELSE 0) + (IF g.raised THEN 1 ELSE 0)
    /\ nInputs' = nInputs + 1
    /\ messages' = messages \o
            <<UserMessage(p), [role |-> "assistant", content |-> GeneralChatResponse(g)]>>
    /\ prompt' = p
    /\ event' = "chat_input"
    /\ ran' = "chat"
    /\ escaped' = FALSE
    /\ FreshSearch
    /\ FreshNotion
    /\ UNCHANGED <<schedules, collected_news, last_check_time, pc, browsers, clock>>

\* chat input, classifier says news, the feed has no entries
ChatInputNewsEmpty(p, co) ==
    /\ pc = "idle"
    /\ nInputs < MaxInputs
    /\ CheckNewsIntent(co)
    /\ nInputs' = nInputs + 1
    /\ LET ret == EmptyFeedReturn
       IN /\ searchRet' = Some(ret)
          /\ messages' = messages \o <<UserMessage(p), NewsMessage(ret, clock)>>
    /\ clock' = clock + 1
    /\ prompt' = p
    /\ event' = "chat_input"
    /\ ran' = "news"
    /\ escaped' = FALSE
    /\ searchStatus' = "returned"
    /\ entries' = Feed(0)
    /\ idx' = 0
    /\ results' = <<>>
    /\ summary' = <<>>
    /\ crawlRaised' = FALSE
    /\ outcomes' = <<>>
    /\ modelCalls' = 0
    /\ launches' = 0
    /\ FreshNotion
    /\ UNCHANGED <<schedules, collected_news, last_check_time, pc, browsers, faults>>

\* chat input, classifier says news, the feed has n >= 1 entries: the loop
\* over feed.entries[:3] starts
ChatInputNews(p, co, n) ==
    /\ pc = "idle"
    /\ nInputs < MaxInputs
    /\ CheckNewsIntent(co)
    /\ n >= 1
    /\ nInputs' = nInputs + 1
    /\ messages' = Append(messages, UserMessage(p))
    /\ prompt' = p
    /\ event' = "chat_input"
    /\ ran' = "news"
    /\ escaped' = FALSE
    /\ searchStatus' = "running"
    /\ searchRet' = None
    /\ entries' = Feed(n)
    /\ idx' = 1
    /\ results' = <<>>
    /\ summary' = <<>>
    /\ crawlRaised' = FALSE
    /\ outcomes' = <<>>
    /\ modelCalls' = 0
    /\ launches' = 0
    /\ pc' = "launch"
    /\ FreshNotion
    /\ UNCHANGED <<schedules, collected_news, last_check_time, browsers, clock, faults>>

\* the exception leaves search_and_process_news and the handler: the run ends
Abort(kind) ==
    /\ pc' = "idle"
    /\ escaped' = TRUE
    /\ searchStatus' = "raised"
    /\ outcomes' = Append(outcomes, kind)
    /\ faults' = faults + 1
    /\ UNCHANGED <<store, locals, clock, nInputs, event, ran, searchRet,
                   modelCalls, notionGhost>>

\* browser = await p.chromium.launch(headless=True)
Launch ==
    /\ pc = "launch"
    /\ browsers' = browsers \cup {idx}
    /\ launches' = launches + 1
    /\ pc' = "new_page"
    /\ UNCHANGED <<store, locals, clock, faults, nInputs, event, ran, searchStatus,
                   searchRet, outcomes, modelCalls, notionGhost, escaped>>

\* ... raises: nothing catches it
LaunchFails ==
    /\ pc = "launch"
    /\ faults < MaxFaults
    /\ launches' = launches + 1
    /\ UNCHANGED browsers
    /\ Abort("launch")

\* page = await browser.new_page()
NewPage ==
    /\ pc = "new_page"
    /\ pc' = "try"
    /\ UNCHANGED <<store, locals, browsers, clock, faults, nInputs, event,
                   ran, searchGhost, notionGhost, escaped>>

\* ... raises before the try block is entered: nothing catches it
NewPageFails ==
    /\ pc = "new_page"
    /\ faults < MaxFaults
    /\ browsers' = PlaywrightExit(browsers, idx)
    /\ UNCHANGED launches
    /\ Abort("new_page")

\* the try block: goto, inner_text, the model call
Crawl(o) ==
    /\ pc = "try"
    /\ IsFault(o) => faults < MaxFaults
    /\ faults' = faults + (IF IsFault(o) THEN 1 ELSE 0)
    /\ summary' = CrawlReturn(o).value
    /\ crawlRaised' = CrawlReturn(o).raised
    /\ outcomes' = Append(outcomes, o.fail)
    /\ modelCalls' = modelCalls + (IF ReachedModelCall(o) THEN 1 ELSE 0)
    /\ pc' = "finally"
    /\ UNCHANGED <<store, prompt, entries, idx, results, browsers, clock, nInputs,
                   event, ran, searchStatus, searchRet, launches, notionGhost,
                   escaped>>

\* finally: browser.close(); then results.append and the next entry, or the
\* end of the loop: response_text, the return, the assistant message, st.rerun
Finally ==
    /\ pc = "finally"
    /\ browsers' = BrowserClose(browsers, idx, outcomes[Len(outcomes)] /= "none")
    /\ IF crawlRaised
       THEN /\ pc' = "idle"
            /\ escaped' = TRUE
            /\ searchStatus' = "raised"
            /\ UNCHANGED <<store, idx, results, clock, searchRet>>
       ELSE LET res == Append(results, [title |-> entries[idx].title,
                                        link |-> entries[idx].link,
                                        summary |-> summary])
                ret == [results |-> Some(res), text |-> ResponseText(prompt, res)]
            IN /\ results' = res
               /\ IF idx < Min(ArticleLimit, Len(entries))
                  THEN /\ idx' = idx + 1
                       /\ pc' = "launch"
                       /\ UNCHANGED <<store, clock, searchStatus, searchRet, escaped>>
                  ELSE /\ pc' = "idle"
                       /\ searchStatus' = "returned"
                       /\ searchRet' = Some(ret)
                       /\ messages' = Append(messages, NewsMessage(ret, clock))
                       /\ clock' = clock + 1
                       /\ UNCHANGED <<schedules, collected_news, last_check_time,
                                      idx, escaped>>
    /\ UNCHANGED <<prompt, entries, summary, crawlRaised, faults, nInputs, event,
                   ran, outcomes, modelCalls, launches, notionGhost>>

\* the sidebar's "add schedule" button
AddSchedule(t, k, h, m) ==
    /\ pc = "idle"
    /\ k /= <<>> => nInputs < MaxInputs
    /\ nInputs' = nInputs + (IF k /= <<>> THEN 1 ELSE 0)
    /\ schedules' = IF k /= <<>>
                    THEN Append(schedules, NewSchedule(t, k, h, m, schedules))
                    ELSE schedules
    /\ event' = "schedule_button"
    /\ ran' = "none"
    /\ escaped' = FALSE
    /\ prompt' = <<>>
    /\ FreshSearch
    /\ FreshNotion
    /\ UNCHANGED <<messages, collected_news, last_check_time, pc, browsers, clock,
                   faults>>

\* the save button of article ai of message mi: the run in which st.button
\* reports that key pressed
SaveClick(mi, ai, apiOk) ==
    /\ pc = "idle"
    /\ mi \in 1..Len(messages)
    /\ HasNews(messages[mi])
    /\ ai \in 1..Len(messages[mi].news_results)
    /\ LET calls == RenderLoop(messages, 1, ButtonKey(ai - 1, messages[mi]))
       IN /\ notionCalls' = calls
          /\ notionRet' = [j \in 1..Len(calls) |-> SaveToNotion(calls[j], apiOk).ret]
          /\ notionApiCalls' = Attempts(calls, 1, apiOk)
    /\ click' = Some(<<mi, ai>>)
    /\ apiFailed' = ~apiOk
    /\ event' = "save_button"
    /\ ran' = "none"
    /\ escaped' = FALSE
    /\ prompt' = <<>>
    /\ FreshSearch
    /\ UNCHANGED <<store, pc, browsers, clock, faults, nInputs>>

Next ==
    \/ \E p \in Prompts, co \in ClassifierOutcomes, g \in ChatOutcomes :
            ChatInputChat(p, co, g)
    \/ \E p \in Prompts, co \in ClassifierOutcomes : ChatInputNewsEmpty(p, co)
    \/ \E p \in Prompts, co \in ClassifierOutcomes, n \in 1..MaxFeedLen :
            ChatInputNews(p, co, n)
    \/ Launch
    \/ LaunchFails
    \/ NewPage
    \/ NewPageFails
    \/ \E o \in CrawlOutcomes : Crawl(o)
    \/ Finally
    \/ \E t \in ScheduleTypes, k \in Keywords, h \in Hours, m \in Minutes :
            AddSchedule(t, k, h, m)
    \/ \E mi \in 1..(2 * MaxInputs), ai \in 1..ArticleLimit, apiOk \in BOOLEAN :
            SaveClick(mi, ai, apiOk)

Spec == Init /\ [][Next]_vars

(* ------------------------------ claims --------------------------------- *)
\* the model's reply, trimmed and upper-cased, holds N, E, W, S in a row
IsNewsReply(co) ==
    /\ ~co.raised
    /\ LET u == StrUpper(StrStrip(co.reply))
       IN \E i \in 1..Len(u) :
            /\ i + 3 <= Len(u)
            /\ u[i] = "N" /\ u[i + 1] = "E" /\ u[i + 2] = "W" /\ u[i + 3] = "S"

\* the running script handles a prompt on which the classifier call ends as co
HandlesInput(co) ==
    \E p \in Prompts :
        \/ \E g \in ChatOutcomes : ChatInputChat(p, co, g)
        \/ ChatInputNewsEmpty(p, co)
        \/ \E n \in 1..MaxFeedLen : ChatInputNews(p, co, n)

\* C1: every handled prompt enters exactly one pipeline: the news pipeline if
\* and only if the classifier call succeeded and its reply, trimmed and
\* upper-cased, contains "NEWS"; otherwise (an exception of the call included)
\* the chat responder.
C1_OnePipeline ==
    [][\A co \in ClassifierOutcomes :
            HandlesInput(co) =>
                /\ ran' \in {"news", "chat"}
                /\ ran' = "news" <=> IsNewsReply(co)
                /\ ran' = "chat" <=> ~IsNewsReply(co)
                /\ ran' = "news" <=> searchStatus' /= "none"]_vars

C1_Witness ==
    /\ ran = "news"
    /\ searchStatus = "returned"
    /\ \E i \in 1..Len(messages) :
            /\ messages[i].role = "assistant"
            /\ messages[i].content = GeneralChatResponse([raised |-> FALSE, text |-> <<"hello">>])

\* C2: on a feed without entries search_and_process_news returns exactly
\* (None, the no-results message); no browser was launched and no model call
\* was made.
C2_EmptyFeed ==
    (searchStatus = "returned" /\ entries = <<>>) =>
        /\ searchRet = Some([results |-> None, text |-> NoResultsMsg])
        /\ launches = 0
        /\ browsers = {}
        /\ modelCalls = 0
        /\ outcomes = <<>>

C2_Witness ==
    /\ searchStatus = "returned"
    /\ entries = <<>>
    /\ messages[Len(messages)].content = NoResultsMsg

\* C3: a search over a feed of 3 or more entries ends by returning exactly 3
\* records, the i-th with the title and link of the i-th entry, each with
\* non-empty title, link and summary.
C3_ThreeRecords ==
    (searchStatus \in {"returned", "raised"} /\ Len(entries) >= 3) =>
        /\ searchStatus = "returned"
        /\ searchRet /= None
        /\ searchRet[1].results /= None
        /\ LET res == searchRet[1].results[1]
           IN /\ Len(res) = 3
              /\ \A i \in 1..3 :
                    /\ res[i].title = entries[i].title
                    /\ res[i].link = entries[i].link
                    /\ res[i].title /= <<>>
                    /\ res[i].link /= <<>>
                    /\ res[i].summary /= <<>>

InTryFailures == {"goto", "inner_text", "model"}

HasFailedPrefix(s) ==
    /\ Len(s) >= Len(SummaryFailedPrefix)
    /\ SubSeq(s, 1, Len(SummaryFailedPrefix)) = SummaryFailedPrefix

\* C4: a failure of navigation, text extraction or summarization on an entry
\* makes crawl_and_summarize return the error string as that entry's summary,
\* never raise; the search is left by an exception only at a browser launch or
\* a page creation, and a search that returns gives one record per entry it
\* processed, the first min(3, entries) of the feed.
C4_PerArticleFailure ==
    /\ \A i \in 1..Len(outcomes) :
            outcomes[i] \in InTryFailures =>
                IF i <= Len(results)
                THEN HasFailedPrefix(results[i].summary)
                ELSE /\ pc = "finally"
                     /\ i = idx
                     /\ ~crawlRaised
                     /\ HasFailedPrefix(summary)
    /\ searchStatus = "raised" =>
            /\ outcomes /= <<>>
            /\ outcomes[Len(outcomes)] \in {"launch", "new_page"}
    /\ (searchStatus = "returned" /\ entries /= <<>>) =>
            /\ Len(outcomes) = Min(ArticleLimit, Len(entries))
            /\ searchRet /= None
            /\ searchRet[1].results /= None
            /\ Len(searchRet[1].results[1]) = Len(outcomes)
            /\ \A i \in 1..Len(outcomes) :
                    /\ searchRet[1].results[1][i].title = entries[i].title
                    /\ searchRet[1].results[1][i].link = entries[i].link

C4_Witness ==
    /\ searchStatus = "returned"
    /\ Len(outcomes) = 3
    /\ outcomes[1] \in InTryFailures
    /\ HasFailedPrefix(results[1].summary)
    /\ ~HasFailedPrefix(results[3].summary)

\* C5: no run of the script ends in an exception that nothing caught.
C5_NothingFatal == ~escaped

\* C6: the run that handles the click on the save button of article ai of
\* message mi calls save_to_notion exactly once, with the title, summary and
\* link of that article.
C6_SaveClickedArticle ==
    click /= None =>
        LET mi == click[1][1]
            ai == click[1][2]
        IN /\ mi \in 1..Len(messages)
           /\ HasNews(messages[mi])
           /\ ai \in 1..Len(messages[mi].news_results)
           /\ notionCalls =
                <<[title |-> messages[mi].news_results[ai].title,
                   summary |-> messages[mi].news_results[ai].summary,
                   link |-> messages[mi].news_results[ai].link]>>

NewsMessages == {i \in 1..Len(messages) : HasNews(messages[i])}

C6_Witness ==
    /\ click /= None
    /\ Cardinality(NewsMessages) >= 2
    /\ click[1][1] = 2
    /\ click[1][2] = 2
    /\ Len(notionCalls) = 1

\* C7: a run in which the notes API fails gets False from save_to_notion, makes
\* one API call per save_to_notion call (no retry), ends without an exception
\* and leaves messages, schedules, collected_news and last_check_time as they
\* were.
C7_FailedSaveIsNoOp ==
    [][(\E mi \in 1..(2 * MaxInputs), ai \in 1..ArticleLimit : SaveClick(mi, ai, FALSE)) =>
            /\ apiFailed'
            /\ notionCalls' /= <<>>
            /\ \A j \in 1..Len(notionRet') : notionRet'[j] = FALSE
            /\ Len(notionRet') = Len(notionCalls')
            /\ notionApiCalls' = Len(notionCalls')
            /\ ~escaped'
            /\ messages' = messages
            /\ schedules' = schedules
            /\ collected_news' = collected_news
            /\ last_check_time' = last_check_time]_vars

C7_Witness ==
    /\ apiFailed
    /\ notionRet = <<FALSE>>
    /\ notionApiCalls = 1
    /\ schedules /= <<>>

SubmitsScheduleForm ==
    \E t \in ScheduleTypes, k \in Keywords, h \in Hours, m \in Minutes :
        AddSchedule(t, k, h, m)

AppendsOneSchedule ==
    /\ Len(schedules') = Len(schedules) + 1
    /\ SubSeq(schedules', 1, Len(schedules)) = schedules
    /\ schedules'[Len(schedules')].active = TRUE
    /\ \A i \in 1..Len(schedules) : schedules'[Len(schedules')].id > schedules[i].id
    /\ \A i, j \in 1..Len(schedules') : i /= j => schedules'[i].id /= schedules'[j].id

\* C8 as stated: every submission of the schedule form appends exactly one
\* entry, active, with an id above every id already there, and leaves the
\* entries already there alone.
C8_EverySubmissionAppends == [][SubmitsScheduleForm => AppendsOneSchedule]_vars

\* C8 amended: every submission of the schedule form with a non-empty keyword
\* appends exactly one entry, active, with that keyword and an id above every
\* id already there, and leaves the entries already there alone; a submission
\* with an empty keyword leaves the collection as it was.
C8_NonEmptySubmissionAppends ==
    [][\A t \in ScheduleTypes, k \in Keywords, h \in Hours, m \in Minutes :
            AddSchedule(t, k, h, m) =>
                IF k /= <<>>
                THEN /\ AppendsOneSchedule
                     /\ schedules'[Len(schedules')].keyword = k
                ELSE schedules' = schedules]_vars

C8_Witness ==
    /\ event = "schedule_button"
    /\ Len(schedules) = 2
    /\ schedules[2].id > schedules[1].id

\* C9: between runs the messages list has even length and alternates user,
\* assistant, user, assistant, ...
C9_Alternates ==
    pc = "idle" =>
        /\ Len(messages) % 2 = 0
        /\ \A i \in 1..Len(messages) :
                messages[i].role = (IF i % 2 = 1 THEN "user" ELSE "assistant")

\* C10: at most one browser is open at any moment; no browser is open when the
\* next entry's browser is about to be launched, nor when the search has
\* returned, whatever happened in the try block.
C10_OneBrowser ==
    /\ Cardinality(browsers) <= 1
    /\ pc = "launch" => browsers = {}
    /\ pc \in {"new_page", "try", "finally"} => browsers = {idx}
    /\ searchStatus = "returned" => browsers = {}
    /\ launches <= ArticleLimit

C10_Witness ==
    /\ pc = "launch"
    /\ idx = 2
    /\ launches = 1
    /\ outcomes = <<"goto">>
    /\ browsers = {}

====
